---- MODULE Spec2Model ----
(***************************************************************************)
(* A model of m9dicts/api.py: the path-expression parser (_split_path,     *)
(* _jsnp_unescape), the path accessor (get, set_, mk_nested_dic) and the   *)
(* tree builder / converter (make, _make_from_namedtuple, convert_to).     *)
(*                                                                         *)
(* Text is a sequence of one-character strings, so "a/b" is <<"a","/","b">>*)
(* and '' is <<>>.  Every Python object is a record of one shape           *)
(*   [cls, items, name, ord, pol, s]                                       *)
(* where cls is the concrete class, items the <<key, value>> pairs of a    *)
(* mapping or the <<field, value>> pairs of a namedtuple in iteration      *)
(* order (the elements of a list or tuple are pairs with the key NoKey),   *)
(* name the class name of a namedtuple, ord/pol the ordering flag and      *)
(* merge policy of a mergeable dict and s the payload of an opaque scalar. *)
(* A mapping iterates in insertion order, whatever its class; the ordering *)
(* flag is kept as part of the class of the mapping.                       *)
(***************************************************************************)
EXTENDS Integers, Sequences, FiniteSets, TLC

VARIABLES
    dic,            \* the tree get and set_ work on
    path,           \* the path expression of the last call
    val,            \* the value of the last set_ call
    op,             \* the last call: "init", "split", "get" or "set"
    items,          \* the tokens the last call parsed the path into
    ret,            \* what the last call returned or raised
    nset,           \* number of set_ calls so far
    obj,            \* the object handed to the first make / convert_to
    prev,           \* the argument of the last make / convert_to
    cur,            \* its result
    hist,           \* the calls made so far, oldest first
    ordered,        \* the `ordered` option of the calls
    merge,          \* the `merge` option of the calls
    to_namedtuple   \* the `to_namedtuple` option of the last convert_to

vars == <<dic, path, val, op, items, ret, nset,
          obj, prev, cur, hist, ordered, merge, to_namedtuple>>

pathVars == <<dic, path, val, op, items, ret, nset>>
convVars == <<obj, prev, cur, hist, ordered, merge, to_namedtuple>>

(***************************************************************************)
(* Bounds of the model.                                                    *)
(***************************************************************************)
MaxPathLen == 4
MaxKeyLen == 2
MaxSetPathLen == 2
MaxSets == 2
MaxSeqLen == 1

(***************************************************************************)
(* Python objects.                                                         *)
(***************************************************************************)
Obj(c, its, n, o, p, x) ==
    [cls |-> c, items |-> its, name |-> n, ord |-> o, pol |-> p, s |-> x]

None == Obj("NoneType", <<>>, "", FALSE, "", "")
Scalar(x) == Obj("scalar", <<>>, "", FALSE, "", x)
NoKey == <<>>
Elems(xs) == [i \in DOMAIN xs |-> <<NoKey, xs[i]>>]
List(xs) == Obj("list", Elems(xs), "", FALSE, "", "")
Tuple(xs) == Obj("tuple", Elems(xs), "", FALSE, "", "")
Dict(its) == Obj("dict", its, "", FALSE, "", "")
OrderedDict(its) == Obj("OrderedDict", its, "", TRUE, "", "")
MDict(o, p, its) == Obj("mdict", its, "", o, p, "")
NamedTuple(n, its) == Obj("namedtuple", its, n, FALSE, "", "")

is_dict_like(o) == o.cls \in {"dict", "OrderedDict", "mdict"}
is_namedtuple(o) == o.cls = "namedtuple"
is_list_like(o) == o.cls \in {"list", "tuple", "namedtuple"}

Keys(o) == [i \in DOMAIN o.items |-> o.items[i][1]]
HasKey(o, k) == \E i \in DOMAIN o.items : o.items[i][1] = k
Lookup(o, k) == o.items[CHOOSE i \in DOMAIN o.items : o.items[i][1] = k][2]

(***************************************************************************)
(* Outcome of a subscription obj[key]: the value, or the exception raised  *)
(* with the text str(exc) gives.                                           *)
(***************************************************************************)
Ok(v) == [exc |-> "", v |-> v, msg |-> <<>>]
Raise(e, m) == [exc |-> e, v |-> None, msg |-> m]

\* obj[key] with a text key (operator.getitem on a str)
GetItemStr(o, k) ==
    IF is_dict_like(o)
    THEN IF HasKey(o, k) THEN Ok(Lookup(o, k))
         ELSE Raise("KeyError", <<"'">> \o k \o <<"'">>)
    ELSE IF is_list_like(o)
    THEN Raise("TypeError", <<"indices must be integers">>)
    ELSE Raise("TypeError", <<"object is not subscriptable">>)

\* obj[idx] with a non-negative integer index into a sequence
GetItemInt(o, i) ==
    IF is_dict_like(o) THEN Raise("KeyError", <<"int">>)
    ELSE IF is_list_like(o)
    THEN IF i < Len(o.items)
         THEN Ok(o.items[i + 1][2])
         ELSE Raise("IndexError", <<"index out of range">>)
    ELSE Raise("TypeError", <<"object is not subscriptable">>)

(***************************************************************************)
(* Text helpers: str.replace of a two-character pattern by one character,  *)
(* str.split(sep), the regular expression match and int().                 *)
(***************************************************************************)
RECURSIVE Replace2(_, _, _, _)
Replace2(s, a, b, r) ==
    IF Len(s) < 2 THEN s
    ELSE IF s[1] = a /\ s[2] = b
         THEN <<r>> \o Replace2(SubSeq(s, 3, Len(s)), a, b, r)
         ELSE <<s[1]>> \o Replace2(Tail(s), a, b, r)

In(c, s) == \E i \in DOMAIN s : s[i] = c

RECURSIVE StrSplit(_, _)
StrSplit(s, sep) ==
    IF ~In(sep, s) THEN <<s>>
    ELSE LET i == CHOOSE j \in DOMAIN s :
                      s[j] = sep /\ \A m \in 1..(j - 1) : s[m] # sep
         IN <<SubSeq(s, 1, i - 1)>> \o StrSplit(SubSeq(s, i + 1, Len(s)), sep)

Digits == <<"0", "1", "2", "3", "4", "5", "6", "7", "8", "9">>
IsDigit(c) == In(c, Digits)
DigitVal(c) == (CHOOSE i \in DOMAIN Digits : Digits[i] = c) - 1

\* re.match of (?:0|[1-9][0-9]*): anchored at the start only, so it
\* succeeds as soon as the text starts with a digit.
_JSNP_GET_ARRAY_IDX_REG(s) == Len(s) > 0 /\ IsDigit(s[1])

\* int(text): defined on non-empty digit strings (leading zeros allowed),
\* ValueError on anything else the alphabet can form.
IntOk(s) == Len(s) > 0 /\ \A i \in DOMAIN s : IsDigit(s[i])

RECURSIVE IntVal(_)
IntVal(s) == IF s = <<>> THEN 0
             ELSE 10 * IntVal(SubSeq(s, 1, Len(s) - 1)) + DigitVal(s[Len(s)])

(***************************************************************************)
(* Path expression parser.                                                 *)
(***************************************************************************)
\* the preference order reversed
PATH_SEPS_dot_first == <<".", "/">>

PATH_SEPS == <<"/", ".">>

\* the two replacements in the other order
_jsnp_unescape_tilde_first(jsn_s) ==
    Replace2(Replace2(jsn_s, "~", "0", "~"), "~", "1", "/")

_jsnp_unescape(jsn_s) == Replace2(Replace2(jsn_s, "~", "1", "/"), "~", "0", "~")

NonEmpty(x) == x # <<>>

RECURSIVE SplitLoop(_, _)
SplitLoop(p, seps) ==
    IF seps = <<>> THEN <<p>>
    ELSE IF In(Head(seps), p)
         THEN IF p = <<Head(seps)>> THEN << <<>> >>
              ELSE SelectSeq(StrSplit(p, Head(seps)), NonEmpty)
         ELSE SplitLoop(p, Tail(seps))

_split_path(p) == IF p = <<>> THEN <<>> ELSE SplitLoop(p, PATH_SEPS)

(***************************************************************************)
(* Path accessor.                                                          *)
(***************************************************************************)
Returned(v, e) == [kind |-> "return", val |-> v, err |-> e, exc |-> ""]
Raised(e) == [kind |-> "raise", val |-> None, err |-> <<>>, exc |-> e]

\* functools.reduce(operator.getitem, keys, o): the first failure propagates
RECURSIVE Reduce(_, _)
Reduce(o, ks) ==
    IF ks = <<>> THEN Ok(o)
    ELSE LET r == GetItemStr(o, Head(ks))
         IN IF r.exc # "" THEN r ELSE Reduce(r.v, Tail(ks))

\* except (TypeError, KeyError, IndexError) as exc: return (None, str(exc))
Caught(r) ==
    IF r.exc = "" THEN Returned(r.v, <<>>)
    ELSE IF r.exc \in {"TypeError", "KeyError", "IndexError"}
         THEN Returned(None, r.msg)
         ELSE Raised(r.exc)

GetLast(prnt, last) ==
    IF is_list_like(prnt) /\ _JSNP_GET_ARRAY_IDX_REG(last)
    THEN IF IntOk(last) THEN GetItemInt(prnt, IntVal(last))
         ELSE Raise("ValueError", <<"invalid literal for int()">>)
    ELSE GetItemStr(prnt, last)

get(d, p) ==
    LET its == [i \in DOMAIN _split_path(p) |-> _jsnp_unescape(_split_path(p)[i])]
    IN IF its = <<>> THEN Returned(d, <<>>)
       ELSE IF Len(its) = 1 THEN Caught(GetItemStr(d, its[1]))
       ELSE LET r == Reduce(d, SubSeq(its, 1, Len(its) - 1))
            IN IF r.exc # "" THEN Caught(r)
               ELSE Caught(GetLast(r.v, its[Len(its)]))

\* ret = {key: val if ret is None else ret.copy()} over the reversed tokens:
\* the last token wraps val, every earlier token wraps the mapping built so far.
RECURSIVE Nest(_, _)
Nest(ks, v) ==
    IF Len(ks) = 1 THEN Dict(<< <<ks[1], v>> >>)
    ELSE Dict(<< <<ks[1], Nest(Tail(ks), v)>> >>)

mk_nested_dic(p, v) ==
    IF _split_path(p) = <<>> THEN None ELSE Nest(_split_path(p), v)

\* dict.update(other): every key of other is overwritten in place or appended
RECURSIVE Update(_, _)
Update(its, new) ==
    IF new = <<>> THEN its
    ELSE LET k == Head(new)[1]
             put == IF \E i \in DOMAIN its : its[i][1] = k
                    THEN [i \in DOMAIN its |->
                            IF its[i][1] = k THEN Head(new) ELSE its[i]]
                    ELSE Append(its, Head(new))
         IN Update(put, Tail(new))

set_(d, p, v) ==
    LET n == mk_nested_dic(p, v)
    IN IF is_dict_like(n)
       THEN [dic |-> [d EXCEPT !.items = Update(d.items, n.items)], exc |-> ""]
       ELSE [dic |-> d, exc |-> "TypeError"]

(***************************************************************************)
(* Tree builder / converter.                                               *)
(***************************************************************************)
NAMEDTUPLE_CLS_KEY ==
    <<"n", "a", "m", "e", "d", "t", "u", "p", "l", "e", "_", "c", "l", "s", "_", "_">>

MS_REPLACE == "REPLACE"
MS_NO_REPLACE == "NO_REPLACE"
MS_DICTS == "DICTS"
MS_DICTS_AND_LISTS == "DICTS_AND_LISTS"
MERGE_STRATEGIES == {MS_REPLACE, MS_NO_REPLACE, MS_DICTS, MS_DICTS_AND_LISTS}

\* an instance of m9dicts.dicts.get_mdict_class(merge, ordered) holding its
get_mdict_class(mrg, o, its) == MDict(o, mrg, its)

RECURSIVE make(_, _, _)
RECURSIVE _make_from_namedtuple(_, _, _)

\* opts reaching here hold only `ordered`: `merge` is bound to the named
\* parameter, so the fields are lifted by make(v, ordered=...) with make's
\* default merge; the marker is stored by mdict[_ntpl_cls_key] = class name.
_make_from_namedtuple(o, mrg, ord) ==
    get_mdict_class(mrg, TRUE,
        Update([i \in DOMAIN o.items |->
                   <<o.items[i][1], make(o.items[i][2], ord, MS_DICTS)>>],
               << <<NAMEDTUPLE_CLS_KEY, Scalar(o.name)>> >>))

make(o, ord, mrg) ==
    IF o = None THEN get_mdict_class(mrg, ord, <<>>)
    ELSE IF is_dict_like(o)
    THEN get_mdict_class(mrg, ord,
             [i \in DOMAIN o.items |->
                 <<o.items[i][1],
                   IF o.items[i][2] = None THEN None
                   ELSE make(o.items[i][2], ord, mrg)>>])
    ELSE IF is_namedtuple(o) THEN _make_from_namedtuple(o, mrg, ord)
    ELSE IF is_list_like(o)
    THEN [o EXCEPT !.items = [i \in DOMAIN o.items |->
                                 <<NoKey, make(o.items[i][2], ord, mrg)>>]]
    ELSE o

\* obj.get(_ntpl_cls_key, "NamedTuple")
NtplName(o) ==
    IF HasKey(o, NAMEDTUPLE_CLS_KEY) THEN Lookup(o, NAMEDTUPLE_CLS_KEY).s
    ELSE "NamedTuple"

IsField(it) == it[1] # NAMEDTUPLE_CLS_KEY

RECURSIVE convert_to_marker_only(_, _, _)
\* a record is built only from a mapping that carries the marker key
convert_to_marker_only(o, ord, to_nt) ==
    IF is_dict_like(o)
    THEN IF ~to_nt \/ ~HasKey(o, NAMEDTUPLE_CLS_KEY)
         THEN LET its == [i \in DOMAIN o.items |->
                            <<o.items[i][1],
                              convert_to_marker_only(o.items[i][2], ord, to_nt)>>]
              IN IF ord THEN OrderedDict(its) ELSE Dict(its)
         ELSE LET flds == SelectSeq(o.items, IsField)
              IN NamedTuple(NtplName(o),
                     [i \in DOMAIN flds |->
                        <<flds[i][1],
                          convert_to_marker_only(flds[i][2], ord, to_nt)>>])
    ELSE IF is_list_like(o)
    THEN [o EXCEPT !.items = [i \in DOMAIN o.items |->
                <<NoKey, convert_to_marker_only(o.items[i][2], ord, to_nt)>>]]
    ELSE o

RECURSIVE convert_to(_, _, _)
convert_to(o, ord, to_nt) ==
    IF is_dict_like(o)
    THEN IF ~to_nt
         THEN LET its == [i \in DOMAIN o.items |->
                            <<o.items[i][1], convert_to(o.items[i][2], ord, to_nt)>>]
              IN IF ord THEN OrderedDict(its) ELSE Dict(its)
         ELSE LET flds == SelectSeq(o.items, IsField)
              IN NamedTuple(NtplName(o),
                     [i \in DOMAIN flds |->
                        <<flds[i][1], convert_to(flds[i][2], ord, to_nt)>>])
    ELSE IF is_list_like(o)
    THEN [o EXCEPT !.items = [i \in DOMAIN o.items |->
                                 <<NoKey, convert_to(o.items[i][2], ord, to_nt)>>]]
    ELSE o

(***************************************************************************)
(* Inputs.                                                                 *)
(***************************************************************************)
Chars == {"0", "1", "/", ".", "~"}
Texts(n) == UNION {[1..k -> Chars] : k \in 0..n}

S1 == Scalar("1")
S2 == Scalar("2")
S3 == Scalar("3")

\* {'0': {'0': 1, '1': [1, 2]}, '': 3, '1': [1, 2]} and [[1], 2]
SampleDict ==
    Dict(<< <<(<<"0">>), Dict(<< <<(<<"0">>), S1>>, <<(<<"1">>), List(<<S1, S2>>)>> >>)>>,
            <<(<<>>), S3>>,
            <<(<<"1">>), List(<<S1, S2>>)>> >>)
SampleList == List(<<List(<<S1>>), S2>>)

GetTrees ==
    {Dict(<< <<k, S1>> >>) : k \in Texts(MaxKeyLen)} \cup {SampleDict, SampleList}

SetTrees ==
    {Dict(<<>>), Dict(<< <<(<<"0">>), Dict(<< <<(<<"0">>), S1>> >>)>> >>),
     Dict(<< <<(<<"0">>), List(<<S1, S2>>)>> >>)}
SetVals == {S3, None}

NoPathCall ==
    /\ dic = Dict(<<>>) /\ path = <<>> /\ val = None /\ op = "init"
    /\ items = <<>> /\ ret = Returned(None, <<>>) /\ nset = 0

NoConvCall ==
    /\ obj = None /\ prev = None /\ cur = None /\ hist = <<>>
    /\ ordered = FALSE /\ merge = MS_DICTS /\ to_namedtuple = FALSE

(***************************************************************************)
(* Reading: a tree and a path expression are drawn, then _split_path or    *)
(* get is applied to them.                                                 *)
(***************************************************************************)
Init ==
    /\ dic \in GetTrees
    /\ path \in Texts(MaxPathLen)
    /\ val = None /\ op = "init" /\ items = <<>>
    /\ ret = Returned(None, <<>>) /\ nset = 0
    /\ NoConvCall

Split ==
    /\ op = "init"
    /\ op' = "split"
    /\ items' = _split_path(path)
    /\ UNCHANGED <<dic, path, val, ret, nset>>
    /\ UNCHANGED convVars

Get ==
    /\ op \in {"init", "set"}
    /\ op' = "get"
    /\ items' = [i \in DOMAIN _split_path(path) |-> _jsnp_unescape(_split_path(path)[i])]
    /\ ret' = get(dic, path)
    /\ UNCHANGED <<dic, path, val, nset>>
    /\ UNCHANGED convVars

Next == Split \/ Get

Spec == Init /\ [][Next]_vars

(***************************************************************************)
(* Writing: set_ calls on one tree, each one readable back with get.       *)
(***************************************************************************)
InitSet ==
    /\ dic \in SetTrees
    /\ path = <<>> /\ val = None /\ op = "init" /\ items = <<>>
    /\ ret = Returned(None, <<>>) /\ nset = 0
    /\ NoConvCall

Set(p, v) ==
    /\ op \in {"init", "set", "get"}
    /\ nset < MaxSets
    /\ op' = "set"
    /\ path' = p
    /\ val' = v
    /\ items' = _split_path(p)
    /\ dic' = set_(dic, p, v).dic
    /\ ret' = IF set_(dic, p, v).exc = "" THEN Returned(None, <<>>)
              ELSE Raised(set_(dic, p, v).exc)
    /\ nset' = nset + 1
    /\ UNCHANGED convVars

NextSet == (\E p \in Texts(MaxSetPathLen), v \in SetVals : Set(p, v)) \/ Get

SpecSet == InitSet /\ [][NextSet]_vars

(***************************************************************************)
(* Properties of the path parser and accessor.                             *)
(***************************************************************************)
UsedSep(p) == IF In("/", p) THEN "/" ELSE "."

RECURSIVE Flatten(_)
Flatten(ss) == IF ss = <<>> THEN <<>> ELSE Head(ss) \o Flatten(Tail(ss))

Without(p, c) == [i \in 1..Cardinality({j \in DOMAIN p : p[j] # c}) |->
                    p[CHOOSE j \in DOMAIN p :
                        /\ p[j] # c
                        /\ Cardinality({m \in 1..j : p[m] # c}) = i]]

RunStarts(p, c) == {j \in DOMAIN p : p[j] # c /\ (j = 1 \/ p[j - 1] = c)}

\* C1: get never raises: it returns (value, '') or (None, non-empty
\* message) for every tree and every path.
C1_GetNeverRaises ==
    op = "get" =>
        /\ ret.kind = "return"
        /\ ret.err = <<>> \/ (ret.val = None /\ ret.err # <<>>)

\* a whole token that is '0' or digits starting with 1-9
IsArrayIndex(t) ==
    /\ IntOk(t)
    /\ t = <<"0">> \/ t[1] # "0"

\* C2: with two or more tokens the final token is used as an integer index
\* exactly when the container reached is sequence-like and the whole token
\* is a non-negative integer without leading zero; otherwise keyed access
\* with the text token is performed; earlier tokens are always keys.
C2_IndexOnlyOnWholeInteger ==
    (op = "get" /\ Len(items) >= 2) =>
        LET prnt == Reduce(dic, SubSeq(items, 1, Len(items) - 1))
            last == items[Len(items)]
        IN IF prnt.exc # "" THEN ret = Caught(prnt)
           ELSE IF is_list_like(prnt.v) /\ IsArrayIndex(last)
                THEN ret = Caught(GetItemInt(prnt.v, IntVal(last)))
                ELSE ret = Caught(GetItemStr(prnt.v, last))

\* C8: after set_(tree, path, v) with a path of at least one token,
\* get(tree, path) returns (v, ''), also after earlier set_ calls.
C8_GetAfterSet ==
    (op = "get" /\ nset > 0 /\ _split_path(path) # <<>>) => ret = Returned(val, <<>>)

\* C9: _split_path yields [] for the empty path, [''] for a path that is one
\* separator character, [path] for a path without separator, and otherwise
\* the non-empty segments between the occurrences of the first separator of
\* '/', '.' that occurs in the path, the other separator staying inside them.
C9_Split ==
    op = "split" =>
        IF path = <<>> THEN items = <<>>
        ELSE IF path \in {<<"/">>, <<".">>} THEN items = << <<>> >>
        ELSE IF ~In("/", path) /\ ~In(".", path) THEN items = <<path>>
        ELSE /\ \A i \in DOMAIN items :
                   items[i] # <<>> /\ ~In(UsedSep(path), items[i])
             /\ Flatten(items) = Without(path, UsedSep(path))
             /\ Len(items) = Cardinality(RunStarts(path, UsedSep(path)))

C9_Witness ==
    /\ op = "split"
    /\ path = <<"/", "1", "/", ".">>
    /\ items = << <<"1">>, <<".">> >>

\* esc: every '~' becomes '~0', then every '/' becomes '~1'
RECURSIVE Esc(_)
Esc(k) ==
    IF k = <<>> THEN <<>>
    ELSE (IF Head(k) = "~" THEN <<"~", "0">>
          ELSE IF Head(k) = "/" THEN <<"~", "1">>
          ELSE <<Head(k)>>) \o Esc(Tail(k))

\* C10: for every key text k and value v, get({k: v}, '/' + esc(k)) returns
\* (v, ''); '~01' decodes to '~1', not to '/'.
C10_EscapedKey ==
    (/\ op = "get"
     /\ dic.cls = "dict" /\ Len(dic.items) = 1
     /\ path = <<"/">> \o Esc(dic.items[1][1]))
        => ret = Returned(dic.items[1][2], <<>>)

C10_Witness ==
    /\ op = "get"
    /\ dic = Dict(<< <<(<<"~", "1">>), S1>> >>)
    /\ path = <<"/", "~", "0", "1">>
    /\ ret = Returned(S1, <<>>)

(***************************************************************************)
(* Lifting and lowering: an object and the options are drawn, then make    *)
(* and convert_to are applied, each to the result of the call before.      *)
(***************************************************************************)
Leaves == {None, S1}
FieldNames == {<<"a">>, <<"b">>}
ClassNames == {"R"}

SeqsOf(V) == UNION {[1..n -> V] : n \in 0..MaxSeqLen}
ItemsOf(V) ==
    {<<>>}
    \cup {<< <<k, v>> >> : k \in FieldNames, v \in V}
    \cup {<< <<k[1], v[1]>>, <<k[2], v[2]>> >> :
             k \in {kk \in FieldNames \X FieldNames : kk[1] # kk[2]}, v \in V \X V}

Sequences(V) == {List(xs) : xs \in SeqsOf(V)} \cup {Tuple(xs) : xs \in SeqsOf(V)}
Mappings(V) == {Dict(its) : its \in ItemsOf(V)}
Records(V) == {NamedTuple(n, its) : n \in ClassNames, its \in ItemsOf(V)}

\* plain data nested two containers deep, without and with records
RecordFree1 == Leaves \cup Sequences(Leaves) \cup Mappings(Leaves)
RecordFree2 == Leaves \cup Sequences(RecordFree1) \cup Mappings(RecordFree1)
Plain1 == RecordFree1 \cup Records(Leaves)
Plain2 == Leaves \cup Sequences(Plain1) \cup Mappings(Plain1) \cup Records(Plain1)

Child(x, i) == x.items[i][2]

\* the mergeable tree with the shape of x: every mapping a mergeable dict
\* with ordering flag o and policy p
RECURSIVE TreeOf(_, _, _)
TreeOf(x, o, p) ==
    IF is_dict_like(x)
    THEN MDict(o, p, [i \in DOMAIN x.items |->
                         <<x.items[i][1], TreeOf(x.items[i][2], o, p)>>])
    ELSE IF is_list_like(x)
    THEN [x EXCEPT !.items = [i \in DOMAIN x.items |->
                                 <<NoKey, TreeOf(x.items[i][2], o, p)>>]]
    ELSE x

RECURSIVE HasNamedTuple(_)
HasNamedTuple(x) ==
    \/ is_namedtuple(x)
    \/ \E i \in DOMAIN x.items : HasNamedTuple(Child(x, i))

InitConv ==
    /\ ordered \in BOOLEAN
    /\ merge \in MERGE_STRATEGIES
    /\ obj \in Plain2 \cup {TreeOf(x, ordered, merge) : x \in RecordFree2}
    /\ cur = obj
    /\ prev = None
    /\ hist = <<>>
    /\ to_namedtuple = FALSE
    /\ NoPathCall

\* make raises ValueError for a merge outside MERGE_STRATEGIES; the options
\* drawn are valid ones.
Make ==
    /\ hist \in {<<>>, <<"convert_to">>}
    /\ merge \in MERGE_STRATEGIES
    /\ prev' = cur
    /\ cur' = make(cur, ordered, merge)
    /\ hist' = Append(hist, "make")
    /\ UNCHANGED <<obj, ordered, merge, to_namedtuple>>
    /\ UNCHANGED pathVars

\* convert_to takes what make built or a tree of mergeable dicts: no
\* namedtuple object is in it (a namedtuple is list-like to convert_to, and
\* type(obj)(generator) is no way to build one).
ConvertTo(to_nt) ==
    /\ hist \in {<<>>, <<"make">>}
    /\ ~HasNamedTuple(cur)
    /\ prev' = cur
    /\ cur' = convert_to(cur, ordered, to_nt)
    /\ to_namedtuple' = to_nt
    /\ hist' = Append(hist, "convert_to")
    /\ UNCHANGED <<obj, ordered, merge>>
    /\ UNCHANGED pathVars

NextConv == Make \/ (\E to_nt \in BOOLEAN : ConvertTo(to_nt))

SpecConv == InitConv /\ [][NextConv]_vars

(***************************************************************************)
(* Properties of the tree builder / converter.                             *)
(***************************************************************************)
RECURSIVE AllMappings(_, _, _)
AllMappings(x, o, p) ==
    /\ is_dict_like(x) => (x.cls = "mdict" /\ x.ord = o /\ x.pol = p)
    /\ \A i \in DOMAIN x.items : AllMappings(Child(x, i), o, p)

\* C3: in the tree make returns, every mapping reachable from the root is a
\* mergeable mapping with the policy and the ordering flag of the root.
C3_UniformPolicyAndOrder ==
    hist = <<"make">> =>
        AllMappings(cur, IF is_dict_like(cur) THEN cur.ord ELSE ordered,
                         IF is_dict_like(cur) THEN cur.pol ELSE merge)

RECURSIVE LeavesKept(_, _)
LeavesKept(x, y) ==
    IF x.cls \in {"NoneType", "scalar"} THEN y = x
    ELSE \A i \in DOMAIN x.items :
            i \in DOMAIN y.items /\ LeavesKept(Child(x, i), Child(y, i))

\* C4: make returns a None or scalar input unchanged, at the top level and
\* as a mapping value, a sequence element or a record field.
C4_LeavesUnchanged ==
    hist = <<"make">> => LeavesKept(obj, cur)

RECURSIVE StructEq(_, _, _)
StructEq(x, y, o) ==
    IF is_dict_like(x)
    THEN /\ is_dict_like(y)
         /\ Len(x.items) = Len(y.items)
         /\ o => Keys(x) = Keys(y)
         /\ \A i \in DOMAIN x.items :
               /\ HasKey(y, x.items[i][1])
               /\ StructEq(x.items[i][2], Lookup(y, x.items[i][1]), o)
    ELSE IF is_list_like(x)
    THEN /\ y.cls = x.cls
         /\ Len(x.items) = Len(y.items)
         /\ \A i \in DOMAIN x.items : StructEq(Child(x, i), Child(y, i), o)
    ELSE y = x

\* a mergeable mapping whose mappings all have ordering flag o and policy p
IsTree(x, o, p) == x.cls = "mdict" /\ ~HasNamedTuple(x) /\ AllMappings(x, o, p)

\* C5: for every tree T with policy P and ordering flag o,
\* make(convert_to(T, o), o, P) is structurally equal to T, the key order
\* being compared only when o is true.
C5_RoundTrip ==
    (/\ hist = <<"convert_to", "make">>
     /\ ~to_namedtuple
     /\ IsTree(obj, ordered, merge))
        => StructEq(obj, cur, ordered)

\* C6: for every record r, convert_to(make(r), to_namedtuple=True) is a
\* record with the type name, the fields in their order and the field
\* values of r.
C6_RecordRoundTrip ==
    (/\ hist = <<"make", "convert_to">>
     /\ to_namedtuple
     /\ is_namedtuple(obj))
        => cur = obj

NotMarker(k) == k # NAMEDTUPLE_CLS_KEY

\* C7 as stated: a record is built from a mapping only when to_namedtuple is
\* set and the mapping carries the marker key; a mapping without the marker
\* is lowered to a plain mapping; without to_namedtuple the marker key is
\* kept as an ordinary key/value pair.
C7_RecordOnlyWithMarker ==
    (hist # <<>> /\ hist[Len(hist)] = "convert_to" /\ is_dict_like(prev)) =>
        /\ is_namedtuple(cur) <=> (to_namedtuple /\ HasKey(prev, NAMEDTUPLE_CLS_KEY))
        /\ ~HasKey(prev, NAMEDTUPLE_CLS_KEY) => cur.cls \in {"dict", "OrderedDict"}
        /\ (~to_namedtuple /\ HasKey(prev, NAMEDTUPLE_CLS_KEY)) =>
               (HasKey(cur, NAMEDTUPLE_CLS_KEY)
                /\ Lookup(cur, NAMEDTUPLE_CLS_KEY) = Lookup(prev, NAMEDTUPLE_CLS_KEY))

RECURSIVE Lowered(_, _)
Lowered(t, r) ==
    IF is_dict_like(t)
    THEN IF to_namedtuple
         THEN /\ is_namedtuple(r)
              /\ r.name = IF HasKey(t, NAMEDTUPLE_CLS_KEY)
                          THEN Lookup(t, NAMEDTUPLE_CLS_KEY).s ELSE "NamedTuple"
              /\ Keys(r) = SelectSeq(Keys(t), NotMarker)
              /\ \A i \in DOMAIN r.items :
                    Lowered(Lookup(t, r.items[i][1]), r.items[i][2])
         ELSE /\ r.cls = IF ordered THEN "OrderedDict" ELSE "dict"
              /\ Keys(r) = Keys(t)
              /\ \A i \in DOMAIN r.items : Lowered(t.items[i][2], r.items[i][2])
    ELSE IF is_list_like(t)
    THEN /\ r.cls = t.cls
         /\ Len(r.items) = Len(t.items)
         /\ \A i \in DOMAIN r.items : Lowered(Child(t, i), Child(r, i))
    ELSE r = t

\* C7 amended: with to_namedtuple every mapping, at every depth, is lowered
\* to a record whose fields are its keys other than the marker key in
\* mapping order and whose type name is the marker's value, or "NamedTuple"
\* when the mapping has no marker; without to_namedtuple every mapping is
\* lowered to a plain mapping with the same keys, the marker key included.
C7_RecordFromEveryMapping ==
    (hist # <<>> /\ hist[Len(hist)] = "convert_to") => Lowered(prev, cur)

C7_Witness ==
    /\ hist = <<"make", "convert_to">>
    /\ to_namedtuple
    /\ is_dict_like(prev) /\ HasKey(prev, NAMEDTUPLE_CLS_KEY)
    /\ cur = NamedTuple("R", << <<(<<"a">>),
                                  NamedTuple("NamedTuple", << <<(<<"b">>), S1>> >>)>> >>)

====
